---- MODULE Spec2Model ----
(***************************************************************************)
(* A model of the nonlinear analysis core of MyPyFEM:                      *)
(*   - ElementForceAndStiffness (element_calculation/                      *)
(*     ElementForceAndStiffness.py): element internal force and the three  *)
(*     stiffness contributions, written as triplets into the shared        *)
(*     buffers of fem_db.global_k;                                         *)
(*   - NLDomain (femdb/NLDomain.py): the analysis context singleton and    *)
(*     the selection of the incremental algorithm.                         *)
(* Arrays are 1-based here (Python's are 0-based); positions of the        *)
(* triplet buffers are 0-based as in the code (see At).  Real quantities are kept   *)
(* in fixed point: stresses, pressures and moduli in units of 1/1000.      *)
(***************************************************************************)
EXTENDS Integers, Sequences, FiniteSets, TLC

VARIABLES
    global_k,           \* fem_db.global_k: indexi, indexj, stiffness, counter
    global_plasticity,  \* grp.global_plasticity: epbar[g][e], invCp[g][e]
    kinematics,         \* fem_db.kinematics: the cache ComputeGradients fills
    identity_tensor,    \* fem_db.identity_tensor: I, c1, c2
    phase,              \* position of the assembly pass
    n_elems,            \* number of elements of the group
    calls,              \* what each ElementForceAndStiffness call of the pass did
    instance,           \* NLDomain._instance (0 is None)
    domain,             \* the attributes of the NLDomain object
    next_id,            \* identity of the next object to be created
    returned,           \* what each NLDomain() call returned
    first_components,   \* the components made by the first construction
    SolveControl,       \* fem_db.SolveControl: arcln, searc
    invoked,            \* the solver drivers each ChooseIncrementalAlgorithm call ran
    GlobalInfor,        \* GlobalInfor: InputFileSuffix
    ElementGroupHash,   \* fem_db.ElementGroupHash: the ngauss of each group, in order
    init_runs           \* what each initialisation() call did

vars == <<global_k, global_plasticity, kinematics, identity_tensor, phase,
          n_elems, calls, instance, domain, next_id, returned,
          first_components, SolveControl, invoked, GlobalInfor,
          ElementGroupHash, init_runs>>

assembly_vars == <<global_k, global_plasticity, kinematics, identity_tensor,
                   phase, n_elems, calls>>

domain_vars == <<instance, domain, next_id, returned, first_components,
                 SolveControl, invoked, GlobalInfor, ElementGroupHash,
                 init_runs>>

----------------------------------------------------------------------------
(* Sizes *)

Dim == 2
MaxElems == 2
NNodesElem == 2
NGauss == 2
MaxDomainCalls == 3
MaxAlgorithmCalls == 2
MaxGroups == 2
MaxInitCalls == 2

Idx == 1..Dim
Nodes == 1..NNodesElem
Gauss == 1..NGauss
NDofsElem == Dim * NNodesElem

----------------------------------------------------------------------------
(* numpy helpers *)

RECURSIVE SumTo(_, _)
SumTo(f, n) == IF n = 0 THEN 0 ELSE f[n] + SumTo(f, n - 1)

\* Arrays carry their shape with them in the code; here the shape is given
\* to each helper.

\* np.tile(v, (r, c)) of a 1-D array v of length n: v is promoted to shape
\* (1, n) and repeated r times down and c times across: shape (r, n * c)
RepeatAcross(v, n, c) == [k \in 1..(n * c) |-> v[((k - 1) % n) + 1]]
Tile(v, n, r, c) == [row \in 1..r |-> RepeatAcross(v, n, c)]

\* m.T of a 2-D array of shape (rows, cols)
TransposeM(m, rows, cols) == [j \in 1..cols |-> [i \in 1..rows |-> m[i][j]]]

\* m.flatten() of a 2-D array of shape (rows, cols): row-major
FlattenM(m, rows, cols) ==
    [k \in 1..(rows * cols) |-> m[((k - 1) \div cols) + 1][((k - 1) % cols) + 1]]

\* np.outer(u, v) of 1-D arrays of lengths n and m
Outer(u, v, n, m) == [i \in 1..n |-> [j \in 1..m |-> u[i] * v[j]]]

\* np.matmul(a, b) of 2-D arrays of shapes (n, q) and (q, m)
MatMul(a, b, n, q, m) ==
    [i \in 1..n |-> [j \in 1..m |->
        SumTo([k \in 1..q |-> a[i][k] * b[k][j]], q)]]

\* A buffer of the code, positions 0..cap-1, is a sequence here: position p
\* of the buffer is entry p + 1 of the sequence.
At(buf, p) == buf[p + 1]

\* buf[pos : pos + n] = vals
WriteSlice(buf, pos, n, vals) ==
    SubSeq(buf, 1, pos) \o vals \o SubSeq(buf, pos + n + 1, Len(buf))

----------------------------------------------------------------------------
(* IdentityTensor.__init__ *)

Eye(d) == [i \in 1..d |-> [j \in 1..d |-> IF i = j THEN 1 ELSE 0]]

Tensor4(d) == (1..d) \X (1..d) \X (1..d) \X (1..d)

\* the tensors with the second product of c2 left out
IdentityTensorOneTerm(dimension) ==
    LET I == Eye(dimension)
    IN  [I  |-> I,
         c1 |-> [t \in Tensor4(dimension) |-> 0 + I[t[1]][t[2]] * I[t[3]][t[4]]],
         c2 |-> [t \in Tensor4(dimension) |->
                    0 + I[t[1]][t[3]] * I[t[2]][t[4]]]]

IdentityTensor(dimension) ==
    LET I == Eye(dimension)
    IN  [I  |-> I,
         c1 |-> [t \in Tensor4(dimension) |-> 0 + I[t[1]][t[2]] * I[t[3]][t[4]]],
         c2 |-> [t \in Tensor4(dimension) |->
                    0 + I[t[1]][t[3]] * I[t[2]][t[4]]
                      + I[t[1]][t[4]] * I[t[2]][t[3]]]]

----------------------------------------------------------------------------
(* Input data: material table, mesh, element group, quadrature *)

\* fem_db.Material.Mat: material id -> material object
Material ==
    [m \in 1..2 |->
        IF m = 1
        THEN [kind |-> "HyperElasticPlasticInPrincipal", name |-> "steel", Kappa |-> 2]
        ELSE [kind |-> "NeoHookeanCompressible", name |-> "rubber", Kappa |-> 3]]

MatIds == DOMAIN Material

\* isinstance(mat, HyperElasticPlasticInPrincipal)
IsHyperElasticPlasticInPrincipalAny(mat) == TRUE
IsHyperElasticPlasticInPrincipal(mat) == mat.kind = "HyperElasticPlasticInPrincipal"

\* ele.node_ids of element e: the elements form a chain sharing nodes
NodeIds(e) == [a \in Nodes |-> e + a - 1]

\* MESH.dof_nodes[:, n - 1]: the DOFs of node n
DofNodes(n) == [i \in Idx |-> Dim * (n - 1) + i]

\* grp.quadrature.element_w
ElementW == [g \in Gauss |-> 1]

\* grp.interpolation.element_DN_chi[:, :, g]: dim x n_nodes_elem
ElementDNChi(g) == [i \in Idx |-> [a \in Nodes |-> 60 * (1 + ((i + a + g) % 3))]]

\* The values KINEMATICS.ComputeGradients stores for the element's coordinates:
\* Jx_chi[g] and DN_Dx[:, :, g] (dim x n_nodes_elem)
KinCases == 1..2
ComputeGradients(k) ==
    [Jx_chi |-> [g \in Gauss |-> IF k = 1 THEN 1 ELSE 1 + (g % 2)],
     DN_Dx  |-> [g \in Gauss |->
                    [i \in Idx |-> [a \in Nodes |-> ((i + 2 * a + g + k) % 3) - 1]]]]

\* The initial element volumes Ve the caller passes
VeCases == 1..2

\* Natural logarithm, in 1/1000
LnMilli(n) ==
    CASE n = 1 -> 0    [] n = 2 -> 693  [] n = 3 -> 1099 [] n = 4 -> 1386
      [] n = 5 -> 1609 [] n = 6 -> 1792 [] n = 7 -> 1946 [] n = 8 -> 2079

----------------------------------------------------------------------------
(* The constitutive evaluation ElementForceAndStiffness calls *)

RespCases == 1..2

\* PLAST_element.epbar = epbar[:, ele_idx]; PLAST_element.invCp = invCp[:, :, :, ele_idx]:
\* in-place views; entry g of the view is entry (g, ele_idx) of the store
PlastViewShared(ele_idx) == [g \in Gauss |-> <<g, 1>>]
PlastView(ele_idx) == [g \in Gauss |-> <<g, ele_idx>>]

\* CauchyTypeSelection(PLAST_element, igauss, mat): the Cauchy stress of the
\* Gauss point, and the plastic variables of the Gauss point written through
\* the view
CauchyTypeSelection(plast, view, igauss, mat, r) ==
    [Cauchy |-> [i \in Idx |-> [j \in Idx |->
                    IF i = j THEN 1000 * (r + igauss + i) ELSE 500 * (r - 1)]],
     plast  |-> IF r = 1 THEN plast
                ELSE [epbar |-> [plast.epbar EXCEPT ![view[igauss]] = @ + 1],
                      invCp |-> [plast.invCp EXCEPT ![view[igauss]] = @ + igauss]]]

\* ElasticityModulusSelection(PLAST_element, PLAST_gauss, igauss, mat_id)
ElasticityModulusSelection(igauss, r) ==
    LET delta(i, j) == IF i = j THEN 1 ELSE 0
    IN  [t \in Tensor4(Dim) |->
            1000 * (r * delta(t[1], t[2]) * delta(t[3], t[4])
                    + igauss * (delta(t[1], t[3]) * delta(t[2], t[4])
                                + delta(t[1], t[4]) * delta(t[2], t[3])))]

----------------------------------------------------------------------------
(* The stiffness terms written at the shared cursor fem_db.global_k.counter *)

\* element_indexi[pos:pos+n, 0] = rows; element_indexj[...] = cols;
\* element_stiffness[...] = vals
WriteTriplets(gk, pos, n, rows, cols, vals) ==
    [gk EXCEPT !.indexi = WriteSlice(@, pos, n, rows),
               !.indexj = WriteSlice(@, pos, n, cols),
               !.stiffness = WriteSlice(@, pos, n, vals)]

\* ConstitutiveMatrix(grp, ele, igauss, c, JW): for every node pair and every
\* pair of spatial components one triplet, DN_Dx . c . DN_Dx * JW, written at
\* the shared cursor, which it advances
ConstitutiveMatrix(gk, kin, e, igauss, c, JW) ==
    LET DN == kin.DN_Dx[igauss]
        n == NDofsElem * NDofsElem
        b(k) == ((k - 1) \div (NNodesElem * Dim * Dim)) + 1
        a(k) == (((k - 1) \div (Dim * Dim)) % NNodesElem) + 1
        j(k) == (((k - 1) \div Dim) % Dim) + 1
        i(k) == ((k - 1) % Dim) + 1
        val(k) ==
            SumTo([q \in 1..(Dim * Dim) |->
                     LET kk == ((q - 1) \div Dim) + 1
                         ll == ((q - 1) % Dim) + 1
                     IN  DN[kk][a(k)] * c[<<i(k), kk, j(k), ll>>] * DN[ll][b(k)] * JW],
                  Dim * Dim)
        rows == [k \in 1..n |-> DofNodes(NodeIds(e)[a(k)])[i(k)]]
        cols == [k \in 1..n |-> DofNodes(NodeIds(e)[b(k)])[j(k)]]
        vals == [k \in 1..n |-> val(k)]
    IN  [WriteTriplets(gk, gk.counter, n, rows, cols, vals)
            EXCEPT !.counter = gk.counter + n]

\* GeometricMatrix(grp, ele, DN_sigma_DN, JW): for every node pair one triplet
\* per spatial component, DN_sigma_DN[a, b] * JW, written at the shared cursor,
\* which it advances
GeometricMatrix(gk, e, DN_sigma_DN, JW) ==
    LET n == NNodesElem * NNodesElem * Dim
        b(k) == ((k - 1) \div (NNodesElem * Dim)) + 1
        a(k) == (((k - 1) \div Dim) % NNodesElem) + 1
        i(k) == ((k - 1) % Dim) + 1
        rows == [k \in 1..n |-> DofNodes(NodeIds(e)[a(k)])[i(k)]]
        cols == [k \in 1..n |-> DofNodes(NodeIds(e)[b(k)])[i(k)]]
        vals == [k \in 1..n |-> DN_sigma_DN[a(k)][b(k)] * JW]
    IN  [WriteTriplets(gk, gk.counter, n, rows, cols, vals)
            EXCEPT !.counter = gk.counter + n]

----------------------------------------------------------------------------
(* ElementForceAndStiffness *)

\* line 43: the type check that gates the mean dilatation kinematics
MaterialGateAny(mat) == TRUE
MaterialGate(mat) == IsHyperElasticPlasticInPrincipal(mat)

\* line 78: the type check that gates the plastic state views
PlasticGate(mat) == IsHyperElasticPlasticInPrincipal(mat)

\* line 130: the type check that gates the mean dilatation stiffness term
MeanDilatationGate(mat) == IsHyperElasticPlasticInPrincipal(mat)

\* JW = KINEMATICS.Jx_chi[g] * element_w[g]   (lines 51 and 101)
IntegrationMultiplier(kin, g) == kin.Jx_chi[g] * ElementW[g]

\* lines 44-55: deformed volume ve and volume-averaged shape derivatives
MeanDilatationKinematics(kin) ==
    LET JW(g) == IntegrationMultiplier(kin, g)
        ve == SumTo([g \in Gauss |-> JW(g)], NGauss)
        DN_sum == [i \in Idx |-> [a \in Nodes |->
                      SumTo([g \in Gauss |-> ElementDNChi(g)[i][a] * JW(g)], NGauss)]]
    IN  [ve |-> ve,
         DN_x_mean |-> [i \in Idx |-> [a \in Nodes |-> DN_sum[i][a] \div ve]]]


\* lines 55-66: Jbar = ve / Ve; press = kappa * log(Jbar) / Jbar;
\* kappa_bar = kappa / Jbar - press; the else branch sets both to 0
MeanDilatationPressure(mat, ve, Ve) ==
    IF IsHyperElasticPlasticInPrincipal(mat)
    THEN LET kappa == mat.Kappa
             press == (kappa * (LnMilli(ve) - LnMilli(Ve)) * Ve) \div ve
         IN  [press |-> press,
              kappa_bar |-> ((kappa * 1000 * Ve) \div ve) - press,
              branch |-> "derived"]
    ELSE [press |-> 0, kappa_bar |-> 0, branch |-> "fallback"]

\* line 94: Cauchy = Cauchy + press * IDENTITY_TENSOR.I
AddPressureToStressNone(Cauchy, press) == Cauchy
AddPressureToStress(Cauchy, press) ==
    [i \in Idx |-> [j \in Idx |-> Cauchy[i][j] + press * identity_tensor.I[i][j]]]

\* line 95: c = c + press * (IDENTITY_TENSOR.c1 - IDENTITY_TENSOR.c2)
AddPressureToTensor(c, press) ==
    [t \in Tensor4(Dim) |->
        c[t] + press * (identity_tensor.c1[t] - identity_tensor.c2[t])]

\* lines 106-107: T = Cauchy . DN_Dx[:, :, g]; T_internal += T.T.reshape(T.size, 1)
ForceContribution(Cauchy, DN, JW) ==
    FlattenM(TransposeM(MatMul(Cauchy, DN, Dim, Dim, NNodesElem), Dim, NNodesElem),
             NNodesElem, Dim)

\* line 120: DN_Dx.T . (Cauchy . DN_Dx)
DNSigmaDN(Cauchy, DN) ==
    MatMul(TransposeM(DN, Dim, NNodesElem), MatMul(Cauchy, DN, Dim, Dim, NNodesElem),
           NNodesElem, Dim, NNodesElem)

\* lines 88-123: the body of the Gauss loop for Gauss point igauss.
\* ws: the triplet buffers, the plastic store and T_internal so far
GaussPoint(ws, kin, mat, e, r, press, view, igauss) ==
    LET cs == CauchyTypeSelection(ws.plast, view, igauss, mat, r)
        c_raw == ElasticityModulusSelection(igauss, r)
        Cauchy == AddPressureToStress(cs.Cauchy, press)
        c == AddPressureToTensor(c_raw, press)
        JW == IntegrationMultiplier(kin, igauss)
        DN == kin.DN_Dx[igauss]
        T == ForceContribution(Cauchy, DN, JW)
        gk1 == ConstitutiveMatrix(ws.gk, kin, e, igauss, c, JW)
        DN_sigma_DN == DNSigmaDN(Cauchy, DN)
        gk2 == GeometricMatrix(gk1, e, DN_sigma_DN, JW)
    IN  [gk |-> gk2,
         plast |-> cs.plast,
         T_internal |-> [k \in 1..NDofsElem |-> ws.T_internal[k] + T[k]],
         glog |-> Append(ws.glog,
                    [JW |-> JW, DN |-> DN, Cauchy_raw |-> cs.Cauchy, c_raw |-> c_raw,
                     T |-> T, c |-> c, DN_sigma_DN |-> DN_sigma_DN,
                     const_at |-> ws.gk.counter, geom_at |-> gk1.counter,
                     end_at |-> gk2.counter])]

\* line 87: for igauss in range(ngauss)
RECURSIVE GaussLoop(_, _, _, _, _, _, _, _)
GaussLoop(ws, kin, mat, e, r, press, view, igauss) ==
    IF igauss > NGauss THEN ws
    ELSE GaussLoop(GaussPoint(ws, kin, mat, e, r, press, view, igauss),
                   kin, mat, e, r, press, view, igauss + 1)

\* lines 133-149: the triplets of node pair (anode, bnode)
MeanDilatationBlock(e, md, kappa_bar, anode, bnode) ==
    LET col(a) == [i \in Idx |-> md.DN_x_mean[i][a]]
        DN_x_meana_DN_x_meanb == Outer(col(anode), col(bnode), Dim, Dim)
        indexi == Tile(DofNodes(NodeIds(e)[anode]), Dim, 1, Dim)
        indexj == TransposeM(Tile(DofNodes(NodeIds(e)[bnode]), Dim, 1, Dim), 1, Dim * Dim)
        flat == FlattenM(DN_x_meana_DN_x_meanb, Dim, Dim)
    IN  [rows |-> FlattenM(indexi, 1, Dim * Dim),
         cols |-> FlattenM(indexj, Dim * Dim, 1),
         vals |-> [k \in 1..(Dim * Dim) |-> kappa_bar * md.ve * flat[k]]]

\* lines 131-151: for bnode, for anode: write the block at the local
\* counter and advance the local counter. p counts the node pairs done.
RECURSIVE MeanDilatationLoop(_, _, _, _, _, _)
MeanDilatationLoop(gk, counter, p, e, md, kappa_bar) ==
    IF p >= NNodesElem * NNodesElem THEN [gk |-> gk, counter |-> counter]
    ELSE LET bnode == (p \div NNodesElem) + 1
             anode == (p % NNodesElem) + 1
             blk == MeanDilatationBlock(e, md, kappa_bar, anode, bnode)
         IN  MeanDilatationLoop(
                 WriteTriplets(gk, counter, Dim * Dim, blk.rows, blk.cols, blk.vals),
                 counter + Dim * Dim, p + 1, e, md, kappa_bar)

\* lines 129-151: counter = fem_db.global_k.counter is a local copy; the
\* loop advances the copy and fem_db.global_k.counter keeps its value
MeanDilatationMatrix(gk, mat, e, md, kappa_bar) ==
    LET counter == gk.counter
    IN  IF MeanDilatationGate(mat)
        THEN MeanDilatationLoop(gk, counter, 0, e, md, kappa_bar)
        ELSE [gk |-> gk, counter |-> counter]

\* raise NoImplSuchMaterial(mat.GetName())
Raise(mat, gk, plast, branch) ==
    [status |-> "NoImplSuchMaterial", err_name |-> mat.name, returned |-> FALSE,
     gk |-> gk, plast |-> plast, branch |-> branch]

\* ElementForceAndStiffness(xlocal, Xlocal, mat_id, Ve, ele, grp, ele_idx):
\* k names the kinematics of (xlocal, Xlocal), r the constitutive response
ElementForceAndStiffness(gk, plast, k, mat_id, Ve, e, r) ==
    LET kin == ComputeGradients(k)
        mat == Material[mat_id]
    IN  IF ~MaterialGate(mat) THEN Raise(mat, gk, plast, "none")
        ELSE
        LET md == MeanDilatationKinematics(kin)
            pr == MeanDilatationPressure(mat, md.ve, Ve)
        IN  IF ~PlasticGate(mat) THEN Raise(mat, gk, plast, pr.branch)
            ELSE
            LET view == PlastView(e)
                ws0 == [gk |-> gk, plast |-> plast,
                        T_internal |-> [q \in 1..NDofsElem |-> 0], glog |-> <<>>]
                ws == GaussLoop(ws0, kin, mat, e, r, pr.press, view, 1)
                kk == MeanDilatationMatrix(ws.gk, mat, e, md, pr.kappa_bar)
            IN  [status |-> "ok", err_name |-> "", returned |-> TRUE,
                 gk |-> kk.gk, plast |-> ws.plast, branch |-> pr.branch,
                 T_internal |-> ws.T_internal, glog |-> ws.glog,
                 ve |-> md.ve, DN_x_mean |-> md.DN_x_mean,
                 press |-> pr.press, kappa_bar |-> pr.kappa_bar,
                 md_at |-> ws.gk.counter, md_end |-> kk.counter]


----------------------------------------------------------------------------
(* The assembly pass that calls ElementForceAndStiffness for each element *)

\* triplets one element writes: constitutive and geometric entries of every
\* Gauss point, and the mean dilatation entries
TripletsPerElement ==
    NGauss * (NDofsElem * NDofsElem + NNodesElem * NNodesElem * Dim)
        + NNodesElem * NNodesElem * Dim * Dim

\* GlobalK.__init__: every attribute is None
GlobalK == [indexi |-> "None", indexj |-> "None", counter |-> "None",
            stiffness |-> "None"]

\* the group's plastic store: one entry per (Gauss point, element)
PlasticStore(n) ==
    [epbar |-> [ge \in Gauss \X (1..n) |-> 0],
     invCp |-> [ge \in Gauss \X (1..n) |-> 1]]

\* The driver pre-sizes the buffers for all elements and resets the cursor
BeginAssembly ==
    /\ phase = "constructed"
    /\ LET cap == n_elems * TripletsPerElement
           zeros == [p \in 1..cap |-> 0]
       IN  global_k' = [indexi |-> zeros, indexj |-> zeros, counter |-> 0,
                        stiffness |-> zeros]
    /\ phase' = "assembling"
    /\ UNCHANGED <<global_plasticity, kinematics, identity_tensor, n_elems, calls>>
    /\ UNCHANGED domain_vars

\* One call ElementForceAndStiffness(...) for the next element of the pass
ElementCall ==
    /\ phase = "assembling"
    /\ Len(calls) < n_elems
    /\ \E k \in KinCases, mat_id \in MatIds, Ve \in VeCases, r \in RespCases :
         LET e == Len(calls) + 1
             res == ElementForceAndStiffness(global_k, global_plasticity,
                                             k, mat_id, Ve, e, r)
         IN  /\ kinematics' = ComputeGradients(k)
             /\ global_k' = res.gk
             /\ global_plasticity' = res.plast
             /\ calls' = Append(calls,
                    [e |-> e, mat_id |-> mat_id, k |-> k, Ve |-> Ve, r |-> r,
                     gk_before |-> global_k, plast_before |-> global_plasticity,
                     res |-> res])
             /\ phase' = IF res.status # "ok" THEN "aborted"
                         ELSE IF e = n_elems THEN "done" ELSE "assembling"
    /\ UNCHANGED <<identity_tensor, n_elems>>
    /\ UNCHANGED domain_vars

----------------------------------------------------------------------------
(* NLDomain *)

Components == {"identity_tensor", "right_hand_item", "kinematics", "plastics",
               "aux_variant", "global_k"}

\* the order in which __init__ creates the components (lines 65-70)
ComponentOrder == <<"identity_tensor", "right_hand_item", "kinematics",
                    "plastics", "aux_variant", "global_k">>

PositionOf(c) == CHOOSE q \in 1..Len(ComponentOrder) : ComponentOrder[q] = c

\* NLDomain.__new__: the instance is created when _instance is None only
New(inst, fresh) == IF inst = 0 THEN fresh ELSE inst

\* NLDomain.__init__: every component is a newly created object
InitComponents(old, fresh) ==
    [c \in Components |-> [id |-> fresh + PositionOf(c), state |-> "fresh"]]

\* NLDomain(): __new__, then __init__ on what __new__ returned
NLDomainCall ==
    /\ Len(returned) < MaxDomainCalls
    /\ LET inst == New(instance, next_id)
           comps == InitComponents(domain, next_id)
       IN  /\ instance' = inst
           /\ domain' = comps
           /\ returned' = Append(returned, inst)
           /\ first_components' =
                 IF Len(returned) = 0 THEN comps ELSE first_components
    /\ next_id' = next_id + Len(ComponentOrder) + 1
    /\ UNCHANGED <<SolveControl, invoked, GlobalInfor, ElementGroupHash,
                   init_runs>>
    /\ UNCHANGED assembly_vars

\* AuxVariant.__init__ (line 38): ngauss is None, written 0
AuxVariantNgauss == 0

InputFileTypes == {"FlagSHyP", "INP"}

\* lines 96-105: aux_variant.ngauss is taken from the first element group,
\* for a FlagSHyP input file only
FirstGroupNgauss(suffix, groups) ==
    IF suffix = "FlagSHyP" /\ Len(groups) > 0
    THEN groups[1]
    ELSE AuxVariantNgauss

\* kinematics.Init(dimension, n_nodes_elem, ngauss): the arrays it allocates
\* have one slot per Gauss point; with ngauss None the call either fails or
\* leaves an engine without a Gauss-point count
KinematicsInit(ngauss) ==
    IF ngauss = AuxVariantNgauss THEN {"raised", "initialised"}
    ELSE {"initialised"}

\* the calls of initialisation() in program order (lines 90, 91, 107, 116, 124)
InitSteps == <<"Geom.InitX", "right_hand_item.Init", "kinematics.Init",
               "Geom.InitialVolume", "ResidualAndStiffnessAssembly">>

\* the calls one initialisation() makes: all of them, or those up to the
\* call that raised
StepsRun(kin) ==
    IF kin = "raised" THEN SubSeq(InitSteps, 1, 3) ELSE InitSteps

\* initialisation(): lines 90-124
initialisation ==
    /\ instance # 0
    /\ Len(init_runs) < MaxInitCalls
    /\ LET ngauss == FirstGroupNgauss(GlobalInfor.InputFileSuffix,
                                      ElementGroupHash)
       IN  \E kin \in KinematicsInit(ngauss) :
             /\ domain' = [c \in Components |->
                    IF \/ c = "right_hand_item"
                       \/ c = "aux_variant" /\ ngauss # AuxVariantNgauss
                       \/ c = "kinematics" /\ kin = "initialised"
                    THEN [domain[c] EXCEPT !.state = "initialised"]
                    ELSE domain[c]]
             /\ init_runs' = Append(init_runs,
                    [ngauss |-> ngauss, kinematics |-> kin,
                     steps |-> StepsRun(kin)])
    /\ UNCHANGED <<instance, next_id, returned, first_components, SolveControl,
                   invoked, GlobalInfor, ElementGroupHash>>
    /\ UNCHANGED assembly_vars

Abs(x) == IF x < 0 THEN -x ELSE x

\* lines 132-138: abs(CON.arcln) == 0
ArclnIsZeroSigned(arcln) == arcln <= 0
ArclnIsZero(arcln) == Abs(arcln) = 0

\* the drivers one ChooseIncrementalAlgorithm call runs, in order
DriversRun(CON) ==
    IF ArclnIsZero(CON.arcln)
    THEN IF ~(CON.searc # 0)
         THEN <<"NewtonRaphsonAlgorithm">>
         ELSE <<"LineSearchNewtonRaphsonAlgorithm">>
    ELSE <<"ArcLengthNewtonRaphsonAlgorithm">>

ChooseIncrementalAlgorithm ==
    /\ instance # 0
    /\ Len(invoked) < MaxAlgorithmCalls
    /\ invoked' = Append(invoked, DriversRun(SolveControl))
    /\ UNCHANGED <<instance, domain, next_id, returned, first_components,
                   SolveControl, GlobalInfor, ElementGroupHash, init_runs>>
    /\ UNCHANGED assembly_vars

----------------------------------------------------------------------------
(* Specifications *)

InitAssembly(ns) ==
    /\ global_k = GlobalK
    /\ n_elems \in ns
    /\ global_plasticity = PlasticStore(n_elems)
    /\ kinematics = "None"
    /\ identity_tensor = IdentityTensor(Dim)
    /\ phase = "constructed"
    /\ calls = <<>>

\* the element groups of a model: each with its Gauss-point count
GroupSets(n) == UNION {[1..m -> 1..NGauss] : m \in 0..n}

InitDomain(arclns, searcs, suffixes, groups) ==
    /\ instance = 0
    /\ domain = [c \in Components |-> [id |-> 0, state |-> "None"]]
    /\ next_id = 1
    /\ returned = <<>>
    /\ first_components = [c \in Components |-> [id |-> 0, state |-> "None"]]
    /\ SolveControl \in [arcln : arclns, searc : searcs]
    /\ invoked = <<>>
    /\ GlobalInfor \in [InputFileSuffix : suffixes]
    /\ ElementGroupHash \in groups
    /\ init_runs = <<>>

\* the assembly pass
Init ==
    /\ InitAssembly(1..MaxElems)
    /\ InitDomain({0}, {0}, {"FlagSHyP"}, {<<NGauss>>})
Next == BeginAssembly \/ ElementCall
Spec == Init /\ [][Next]_vars

\* the analysis context
InitD ==
    /\ InitAssembly({1})
    /\ InitDomain({-2, -1, 0, 1, 2}, {0, 1}, InputFileTypes,
                  GroupSets(MaxGroups))
NextD == NLDomainCall \/ initialisation \/ ChooseIncrementalAlgorithm
SpecDomain == InitD /\ [][NextD]_vars

----------------------------------------------------------------------------
(* Properties of the assembly pass *)

Dimensions == {2, 3}

CallIds == 1..Len(calls)
OkCalls == {n \in CallIds : calls[n].res.status = "ok"}
Supported(mat_id) == Material[mat_id].kind = "HyperElasticPlasticInPrincipal"
Delta(i, j) == IF i = j THEN 1 ELSE 0

\* positions of the triplet buffers an ElementForceAndStiffness call wrote:
\* constitutive and geometric entries at the shared cursor, then the mean
\* dilatation entries
WrittenBy(n) ==
    {p \in 0..(n_elems * TripletsPerElement - 1) :
        \/ calls[n].gk_before.counter <= p /\ p < calls[n].res.gk.counter
        \/ calls[n].res.md_at <= p /\ p < calls[n].res.md_end}

\* C1: after the calls of a pass that started with the cursor at 0, the
\* shared cursor fem_db.global_k.counter equals the number of triplets
\* written: per element the constitutive and geometric entries and the
\* n_nodes_elem * n_nodes_elem * dim * dim mean dilatation entries.
CursorCountsAllTriplets ==
    phase \in {"assembling", "done"} =>
        global_k.counter = Cardinality(OkCalls) * TripletsPerElement

\* C2: the positions written for two distinct elements of a pass are
\* disjoint.
WriteRegionsDisjoint ==
    \A m \in OkCalls, n \in OkCalls :
        m # n => WrittenBy(m) \cap WrittenBy(n) = {}

ForceIsGaussWeighted ==
    \A n \in OkCalls :
        \A q \in 1..NDofsElem :
            calls[n].res.T_internal[q] =
                SumTo([g \in Gauss |->
                         calls[n].res.glog[g].JW * calls[n].res.glog[g].T[q]],
                      NGauss)

\* C7: a call for element e leaves the plastic variables of every other
\* element as they were, and the store keeps its shape.
PlasticWritesStayInElement ==
    \A n \in OkCalls :
        /\ DOMAIN calls[n].res.plast.epbar = Gauss \X (1..n_elems)
        /\ DOMAIN calls[n].res.plast.invCp = Gauss \X (1..n_elems)
        /\ \A ge \in Gauss \X (1..n_elems) :
              ge[2] # calls[n].e =>
                /\ calls[n].res.plast.epbar[ge] = calls[n].plast_before.epbar[ge]
                /\ calls[n].res.plast.invCp[ge] = calls[n].plast_before.invCp[ge]

\* C7 witness: the call for the second element changed plastic variables
PlasticUpdateInSecondElement ==
    /\ Len(calls) >= 2
    /\ calls[2].res.status = "ok"
    /\ calls[2].res.plast # calls[2].plast_before
    /\ global_plasticity = calls[2].res.plast


\* the stress and the elasticity tensor with the element pressure added
StressWithPressure(Cauchy, press) ==
    [i \in Idx |-> [j \in Idx |-> Cauchy[i][j] + press * Delta(i, j)]]
TensorWithPressure(c, press) ==
    [t \in Tensor4(Dim) |->
        c[t] + press * (Delta(t[1], t[2]) * Delta(t[3], t[4])
                        - Delta(t[1], t[3]) * Delta(t[2], t[4])
                        - Delta(t[1], t[4]) * Delta(t[2], t[3]))]

\* C8: one pressure per element; at every Gauss point the stress of the
\* internal force and of the geometric term is Cauchy + press * I and the
\* tensor passed to the constitutive term is c + press * (c1 - c2).
PressureAddedAtEveryGaussPoint ==
    \A n \in OkCalls :
        LET res == calls[n].res
        IN  /\ Len(res.glog) = NGauss
            /\ \A g \in Gauss :
                 LET gl == res.glog[g]
                     S == StressWithPressure(gl.Cauchy_raw, res.press)
                     SDN == MatMul(S, gl.DN, Dim, Dim, NNodesElem)
                 IN  /\ \A a \in Nodes, i \in Idx :
                            gl.T[(a - 1) * Dim + i] = SDN[i][a]
                     /\ \A a \in Nodes, b \in Nodes :
                            gl.DN_sigma_DN[a][b] =
                                SumTo([i \in Idx |-> gl.DN[i][a] * SDN[i][b]], Dim)
                     /\ gl.c = TensorWithPressure(gl.c_raw, res.press)

\* C8 witness: an element whose pressure is not zero has been assembled
PressureNonZeroAssembled ==
    \E n \in OkCalls :
        /\ calls[n].res.press # 0
        /\ \E g \in Gauss : calls[n].res.glog[g].c # calls[n].res.glog[g].c_raw

\* the entries I, c1 and c2 have for dimension d
HoldsDeltas(t, d) ==
    /\ \A i, j \in 1..d : t.I[i][j] = Delta(i, j)
    /\ \A i, j, k, l \in 1..d :
          /\ t.c1[<<i, j, k, l>>] = Delta(i, j) * Delta(k, l)
          /\ t.c2[<<i, j, k, l>>] =
                Delta(i, k) * Delta(j, l) + Delta(i, l) * Delta(j, k)

\* C12: for dimension 2 and 3 IdentityTensor holds I[i, j] = delta(i, j),
\* c1[i, j, k, l] = delta(i, j) * delta(k, l) and c2[i, j, k, l] =
\* delta(i, k) * delta(j, l) + delta(i, l) * delta(j, k), and the tensors the
\* element computation reads keep these entries through every
\* ElementForceAndStiffness call of a pass.
IdentityTensorConstant ==
    /\ \A d \in Dimensions : HoldsDeltas(IdentityTensor(d), d)
    /\ HoldsDeltas(identity_tensor, Dim)

\* C12 witness: a pass of several elements is done, each element with
\* every Gauss point processed under a pressure that is not zero
TensorsReadByWholePass ==
    /\ phase = "done"
    /\ n_elems = MaxElems
    /\ \A n \in CallIds :
          /\ calls[n].res.status = "ok"
          /\ calls[n].res.press # 0
    /\ HoldsDeltas(identity_tensor, Dim)

\* C9: for every node pair (anode, bnode) and all components i, j the value
\* kappa_bar * ve * DN_x_mean[i, anode] * DN_x_mean[j, bnode] is stored
\* exactly once, with row dof_nodes[i, node(anode)] and column
\* dof_nodes[j, node(bnode)].
MeanDilatationTripletsIndexed ==
    \A n \in OkCalls :
        LET res == calls[n].res
            e == calls[n].e
            region == res.md_at..(res.md_end - 1)
        IN  \A a \in Nodes, b \in Nodes, i \in Idx, j \in Idx :
                LET P == {p \in region :
                            /\ At(res.gk.indexi, p) = DofNodes(NodeIds(e)[a])[i]
                            /\ At(res.gk.indexj, p) = DofNodes(NodeIds(e)[b])[j]}
                IN  /\ Cardinality(P) = 1
                    /\ \A p \in P :
                          At(res.gk.stiffness, p) =
                              res.kappa_bar * res.ve
                                  * res.DN_x_mean[i][a] * res.DN_x_mean[j][b]

\* C10: the else branch of the inner type check (press = 0, kappa_bar = 0)
\* is never taken, and every call that returns has derived press and
\* kappa_bar from Kappa and Jbar and has written the mean dilatation
\* triplets.
MeanDilatationAlwaysApplied ==
    \A n \in CallIds :
        LET res == calls[n].res
            kappa == Material[calls[n].mat_id].Kappa
            Ve == calls[n].Ve
        IN  /\ res.branch # "fallback"
            /\ res.returned =>
                 /\ Supported(calls[n].mat_id)
                 /\ res.branch = "derived"
                 /\ res.press * res.ve <= kappa * (LnMilli(res.ve) - LnMilli(Ve)) * Ve
                 /\ kappa * (LnMilli(res.ve) - LnMilli(Ve)) * Ve < (res.press + 1) * res.ve
                 /\ (res.kappa_bar + res.press) * res.ve <= kappa * 1000 * Ve
                 /\ kappa * 1000 * Ve < (res.kappa_bar + res.press + 1) * res.ve
                 /\ res.md_end - res.md_at = NNodesElem * NNodesElem * Dim * Dim

\* C10 witness: a pass in which one call returned and the next one raised
ReturnedThenRaised ==
    /\ Len(calls) = 2
    /\ calls[1].res.returned /\ calls[1].res.kappa_bar # 0
    /\ ~calls[2].res.returned /\ calls[2].res.branch = "none"

----------------------------------------------------------------------------
(* Properties of the analysis context *)

\* the driver the two control flags select
DriverFor(CON) ==
    IF CON.arcln # 0 THEN "ArcLengthNewtonRaphsonAlgorithm"
    ELSE IF CON.searc = 0 THEN "NewtonRaphsonAlgorithm"
    ELSE "LineSearchNewtonRaphsonAlgorithm"

\* C4: every ChooseIncrementalAlgorithm call runs exactly one driver: plain
\* Newton-Raphson when arcln is zero and searc is off, line-search
\* Newton-Raphson when arcln is zero and searc is on, arc-length
\* Newton-Raphson when arcln is not zero, whatever searc is.
OneDriverByFlags ==
    \A n \in 1..Len(invoked) :
        /\ Len(invoked[n]) = 1
        /\ invoked[n][1] = DriverFor(SolveControl)

\* C4 witness: a call with a negative arc length and line search on
NegativeArcLengthChosen ==
    /\ Len(invoked) >= 1
    /\ SolveControl.arcln < 0
    /\ SolveControl.searc # 0

\* C6: every NLDomain() call returns the same instance, and the components
\* it owns are the ones the first construction created, with the state
\* initialisation() gave them.
ContextConstructedOnce ==
    Len(returned) > 0 =>
        /\ \A n \in 1..Len(returned) : returned[n] = returned[1]
        /\ \A c \in Components : domain[c].id = first_components[c].id

\* C11: every initialisation() call makes its five calls in order, the
\* assembly once and last, and the kinematics engine it initialised before
\* the assembly got a defined Gauss-point count, whatever the input-file
\* type and the element groups.
InitialisationOrdered ==
    \A n \in 1..Len(init_runs) :
        /\ init_runs[n].steps = InitSteps
        /\ init_runs[n].kinematics = "initialised"
        /\ init_runs[n].ngauss # AuxVariantNgauss

====
